---- MODULE Spec2Model ----
(***************************************************************************)
(* Document synchronisation core of the collaborative coding frontend:     *)
(*   - the Document Sync Engine     (hooks/useShareDB.ts, useShareDB)      *)
(*   - the Connection Manager       (services WebSocketService)            *)
(*   - the hook that owns a manager (hooks/useWebSocket.ts)                *)
(* and, for end-to-end properties, the authoritative Document Store the    *)
(* engine talks to (an external collaborator, described by the spec).      *)
(*                                                                         *)
(* Strings are sequences of characters; `undefined` optional fields are    *)
(* carried by a presence flag next to the value.                           *)
(***************************************************************************)
EXTENDS Integers, Sequences, FiniteSets, TLC

\* ----------------------------------------------------------------- bounds
\* longest document content explored
MaxLen == 2
\* largest version number a payload carries
MaxVersion == 1
\* longest pendingChanges queue explored
MaxQueue == 2
\* operations the store accepts in one run of the end-to-end specification
MaxStoreOps == 2
\* messages the store has sent to one client that are still on their way
MaxInbox == 2

\* sockets of one Connection Manager that exist at the same time
MaxSockets == 2
\* reconnect timers that are pending at the same time
MaxTimers == 2

\* WebSocketService.maxReconnectAttempts, WebSocketService.reconnectDelay
maxReconnectAttempts == 5
reconnectDelay == 1000

Clients == {1, 2}
Chars == {"a", "b"}

\* all strings of length <= n over Chars
Strings(n) == UNION {[1..k -> Chars] : k \in 0..n}

\* ------------------------------------------------------------ variables
VARIABLES
    engine,  \* engine[c]: the state of client c's useShareDB instance and of the
             \* socket it was handed (see InitEngine)
    inbox,   \* inbox[c]: messages the store has sent to client c, not yet delivered
    store,   \* the Document Store's copy of the document (see InitStore)
    manager, \* the WebSocketService's fields (see InitManager)
    sockets, \* sockets[s]: the WebSocket objects the manager has created
    timers,  \* delays of the setTimeout callbacks attemptReconnect has pending
    hook,    \* useWebSocket's state (see InitHook)
    written, \* envelopes written by WebSocketService.send, not yet read by the peer
    returned, \* the promise the latest connect() call returned, as it was on return
    closeEvent, \* wasClean of the latest CloseEvent: "none", "clean" or "unclean"
    delivered \* the latest message event: its payload and the listeners called for it

engineVars == <<engine, inbox, store>>
connVars == <<manager, sockets, timers, hook, written, returned, closeEvent, delivered>>
vars == <<engine, inbox, store, manager, sockets, timers, hook, written, returned,
          closeEvent, delivered>>

\* ------------------------------------------------------------ the options
collection == "code"
doc_id == "s1"
Collections == {"code", "problem"}
DocIds == {"s1", "s2"}

\* ------------------------------------------------------------- JS strings
\* String.prototype.slice: a negative index counts from the end, both ends clamp
clampIndex(i, len) ==
    IF i < 0 THEN (IF len + i < 0 THEN 0 ELSE len + i)
    ELSE (IF i > len THEN len ELSE i)

slice(s, start, end) ==
    LET from == clampIndex(start, Len(s))
        to == clampIndex(end, Len(s))
    IN  IF from >= to THEN <<>> ELSE SubSeq(s, from + 1, to)

sliceFrom(s, start) == slice(s, start, Len(s))

\* ---------------------------------------------------------------- messages
\* an edit as sendOperation receives it: content is optional
LocalOp(type, position, hasContent, text) ==
    [type |-> type, position |-> position, hasContent |-> hasContent, content |-> text]

\* operation: {type, position, content, version} of an op / remote-op message
Operation(op, v) ==
    [type |-> op.type, position |-> op.position, hasContent |-> op.hasContent,
     content |-> op.content, version |-> v]

NoOperation ==
    [type |-> "none", position |-> 0, hasContent |-> FALSE, content |-> <<>>, version |-> 0]

\* what the engine writes: JSON.stringify({type, collection, doc_id, ...})
Request(type, operation, from_version) ==
    [type |-> type, collection |-> collection, doc_id |-> doc_id,
     operation |-> operation, from_version |-> from_version]

\* what the engine reads: the parsed event.data
Message(type, coll, doc, text, v, err, operation) ==
    [type |-> type, collection |-> coll, doc_id |-> doc, content |-> text,
     version |-> v, error |-> err, operation |-> operation]

\* ------------------------------------------------------------ engine state
\* useShareDB's useState / useRef cells right after the first render, with the
\* websocket argument still null
InitEngine(auto, faulty) ==
    [websocket |-> FALSE,          \* the websocket argument is non-null
     readyState |-> "CLOSED",      \* websocket.readyState
     faulty |-> faulty,            \* websocket.send may raise
     wire |-> <<>>,                \* written with websocket.send, not yet read by the peer
     content |-> <<>>,
     version |-> 0,
     isLoading |-> TRUE,
     error |-> "null",
     isSubscribed |-> FALSE,
     hasSubscribed |-> FALSE,
     pendingChanges |-> <<>>,
     lastKnownVersion |-> 0,
     autoSubscribe |-> auto]

\* websocket && websocket.readyState === WebSocket.OPEN
isOpen(e) == e.websocket /\ e.readyState = "OPEN"

\* ------------------------------------------------------ engine operations
\* Each operation maps the engine state before the call to the state after it;
\* `throws` says whether websocket.send / JSON.stringify raises in this call.
\* fetchDocument that shows the loading state before it looks at the socket
fetchDocument_eager(e, throws) ==
    LET e1 == [e EXCEPT !.isLoading = TRUE, !.error = "null"]
    IN  IF ~isOpen(e) THEN e1
        ELSE IF throws THEN [e1 EXCEPT !.error = "Failed to fetch document"]
        ELSE [e1 EXCEPT !.wire = Append(@, Request("fetch", NoOperation, 0))]

fetchDocument(e, throws) ==
    IF ~isOpen(e) THEN e
    ELSE LET e1 == [e EXCEPT !.isLoading = TRUE, !.error = "null"]
         IN  IF throws THEN [e1 EXCEPT !.error = "Failed to fetch document"]
             ELSE [e1 EXCEPT !.wire = Append(@, Request("fetch", NoOperation, 0))]

\* subscribe without the hasSubscribed guard
subscribe_unguarded(e, throws) ==
    IF ~isOpen(e) THEN e
    ELSE IF throws THEN [e EXCEPT !.error = "Failed to subscribe"]
    ELSE [e EXCEPT !.wire = Append(@, Request("subscribe", NoOperation, 0)),
                   !.hasSubscribed = TRUE,
                   !.isSubscribed = TRUE]

subscribe(e, throws) ==
    IF ~isOpen(e) THEN e
    ELSE IF e.hasSubscribed THEN e
    ELSE IF throws THEN [e EXCEPT !.error = "Failed to subscribe"]
    ELSE [e EXCEPT !.wire = Append(@, Request("subscribe", NoOperation, 0)),
                   !.hasSubscribed = TRUE,
                   !.isSubscribed = TRUE]

unsubscribe(e, throws) ==
    IF ~isOpen(e) THEN e
    ELSE IF throws THEN [e EXCEPT !.error = "Failed to unsubscribe"]
    ELSE [e EXCEPT !.wire = Append(@, Request("unsubscribe", NoOperation, 0)),
                   !.hasSubscribed = FALSE,
                   !.isSubscribed = FALSE]

\* sendOperation that also keeps a transmitted operation in the queue
sendOperation_keepsQueued(e, op, throws) ==
    IF ~isOpen(e) THEN [e EXCEPT !.pendingChanges = Append(@, op)]
    ELSE IF throws THEN [e EXCEPT !.error = "Failed to send operation"]
    ELSE [e EXCEPT !.wire = Append(@, Request("op", Operation(op, e.lastKnownVersion), 0)),
                   !.pendingChanges = Append(@, op)]

sendOperation(e, op, throws) ==
    IF ~isOpen(e) THEN [e EXCEPT !.pendingChanges = Append(@, op)]
    ELSE IF throws THEN [e EXCEPT !.error = "Failed to send operation"]
    ELSE [e EXCEPT !.wire = Append(@, Request("op", Operation(op, e.lastKnownVersion), 0))]

\* the boolean sendOperation resolves to
sendOperationResult(e, op, throws) == isOpen(e) /\ ~throws

getHistory(e, fromVersion, throws) ==
    IF ~isOpen(e) THEN e
    ELSE IF throws THEN [e EXCEPT !.error = "Failed to fetch history"]
    ELSE [e EXCEPT !.wire = Append(@, Request("history", NoOperation, fromVersion))]

\* the cursor position and selection are not part of the versioning protocol
sendCursor(e, throws) ==
    IF ~isOpen(e) THEN e
    ELSE IF throws THEN e
    ELSE [e EXCEPT !.wire = Append(@, Request("cursor", NoOperation, 0))]

\* the setContent handle useShareDB returns
setContent(e, text) == [e EXCEPT !.content = text]

\* remote-op: the edit applied to prevContent
applyRemote(prevContent, operation) ==
    IF operation.type = "insert" /\ operation.hasContent
    THEN slice(prevContent, 0, operation.position) \o operation.content
           \o sliceFrom(prevContent, operation.position)
    ELSE IF operation.type = "delete"
    THEN LET length == IF operation.hasContent /\ operation.content # <<>>
                       THEN Len(operation.content) ELSE 1
         IN  slice(prevContent, 0, operation.position)
               \o sliceFrom(prevContent, operation.position + length)
    ELSE prevContent

sameDocument(m) == m.collection = collection /\ m.doc_id = doc_id

\* fetch-response that subscribes whatever autoSubscribe says
onFetchResponse_ignoresOption(e, m, throws) ==
    LET e1 == [e EXCEPT !.content = m.content,
                        !.version = m.version,
                        !.lastKnownVersion = m.version,
                        !.isLoading = FALSE,
                        !.error = "null"]
    IN  IF ~e1.hasSubscribed THEN subscribe(e1, throws) ELSE e1

\* fetch-response for this document
onFetchResponse(e, m, throws) ==
    LET e1 == [e EXCEPT !.content = m.content,
                        !.version = m.version,
                        !.lastKnownVersion = m.version,
                        !.isLoading = FALSE,
                        !.error = "null"]
    IN  IF e1.autoSubscribe /\ ~e1.hasSubscribed
        THEN subscribe(e1, throws) ELSE e1

\* fetch-error that also forgets the document
onFetchError_forgets(e, m) ==
    [e EXCEPT !.error = m.error, !.isLoading = FALSE, !.content = <<>>, !.version = 0]

\* fetch-error: the branch does not look at collection and doc_id
onFetchError(e, m) == [e EXCEPT !.error = m.error, !.isLoading = FALSE]

\* remote-op that records the version and leaves the content alone
onRemoteOp_versionOnly(e, m) ==
    [e EXCEPT !.version = m.operation.version,
              !.lastKnownVersion = m.operation.version]

\* remote-op for this document
onRemoteOp(e, m) ==
    [e EXCEPT !.content = applyRemote(@, m.operation),
              !.version = m.operation.version,
              !.lastKnownVersion = m.operation.version]

\* op-ack that sends the next pending change without taking it off the queue
onOpAck_noShift(e, m, throws) ==
    LET e1 == [e EXCEPT !.version = m.version,
                        !.lastKnownVersion = m.version]
    IN  IF Len(e1.pendingChanges) > 0
        THEN sendOperation(e1, Head(e1.pendingChanges), throws)
        ELSE e1

\* op-ack that sends the next pending change before it records the version
onOpAck_sendsFirst(e, m, throws) ==
    LET e1 == IF Len(e.pendingChanges) > 0
              THEN sendOperation([e EXCEPT !.pendingChanges = Tail(@)],
                                 Head(e.pendingChanges), throws)
              ELSE e
    IN  [e1 EXCEPT !.version = m.version, !.lastKnownVersion = m.version]

\* op-ack for this document
onOpAck(e, m, throws) ==
    LET e1 == [e EXCEPT !.version = m.version,
                        !.lastKnownVersion = m.version]
    IN  IF Len(e1.pendingChanges) > 0
        THEN sendOperation([e1 EXCEPT !.pendingChanges = Tail(@)],
                           Head(e1.pendingChanges), throws)
        ELSE e1

\* the 'message' listener; a payload JSON.parse rejects has type "malformed"
handleMessage(e, m, throws) ==
    IF m.type = "malformed" THEN e
    ELSE IF m.type = "fetch-response" THEN
        IF sameDocument(m) THEN onFetchResponse(e, m, throws) ELSE e
    ELSE IF m.type = "fetch-error" THEN onFetchError(e, m)
    ELSE IF m.type = "subscribed" THEN
        IF sameDocument(m) THEN [e EXCEPT !.isSubscribed = TRUE] ELSE e
    ELSE IF m.type = "remote-op" THEN
        IF sameDocument(m) THEN onRemoteOp(e, m) ELSE e
    ELSE IF m.type = "op-ack" THEN
        IF sameDocument(m) THEN onOpAck(e, m, throws) ELSE e
    ELSE e

\* a call of one of the orchestrator's callbacks
Notification(callback, text, v) == [callback |-> callback, content |-> text, version |-> v]

\* the callbacks handleMessage invokes for message m in state e:
\* onRemoteChange(newContent) from the content updaters of remote-op,
\* onVersionChange(version) from remote-op and op-ack
notifications(e, m) ==
    IF m.type = "remote-op" /\ sameDocument(m)
    THEN (IF \/ m.operation.type = "insert" /\ m.operation.hasContent
             \/ m.operation.type = "delete"
          THEN {Notification("onRemoteChange", applyRemote(e.content, m.operation), 0)}
          ELSE {})
         \cup {Notification("onVersionChange", <<>>, m.operation.version)}
    ELSE IF m.type = "op-ack" /\ sameDocument(m)
    THEN {Notification("onVersionChange", <<>>, m.version)}
    ELSE {}

\* the two effects that run when the websocket argument changes: the listener
\* is moved to the new socket, and "Initial fetch on mount" calls fetchDocument
onWebSocketChange(e, throws) == fetchDocument(e, throws)

\* ------------------------------------------------------------ input sets
\* edits the editor submits
LocalOps ==
    {LocalOp("insert", 1, TRUE, <<"b">>),
     LocalOp("delete", 0, TRUE, <<"a">>)}

Versions == 0..MaxVersion
Positions == 0..MaxLen

\* operation payloads of a remote-op: content absent, empty or not
RemoteOperations ==
    {Operation(LocalOp(t, p, h, x), v) :
        t \in {"insert", "delete"}, p \in Positions,
        h \in {TRUE}, x \in {<<>>, <<"b">>}, v \in Versions}
    \cup
    {Operation(LocalOp(t, p, FALSE, <<>>), v) :
        t \in {"insert", "delete"}, p \in Positions, v \in Versions}

\* document contents a fetch-response carries
FetchedContents == {<<>>, <<"a">>, <<"a", "b">>}

\* messages addressed to this subscription's document
OwnMessages ==
    {Message("fetch-response", collection, doc_id, x, v, "null", NoOperation) :
        x \in FetchedContents, v \in Versions}
    \cup {Message("op-ack", collection, doc_id, <<>>, v, "null", NoOperation) : v \in Versions}
    \cup {Message("remote-op", collection, doc_id, <<>>, 0, "null", o) : o \in RemoteOperations}
    \cup {Message(t, collection, doc_id, <<>>, 0, "null", NoOperation) :
            t \in {"subscribed", "history-response", "malformed", "user_joined"}}
    \cup {Message("fetch-error", collection, doc_id, <<>>, 0, "not found", NoOperation)}

\* the same traffic for another document multiplexed on the connection
ForeignOperation == Operation(LocalOp("insert", 0, TRUE, <<"b">>), MaxVersion)

ForeignMessages ==
    {Message(t, kd[1], kd[2], <<"b">>, MaxVersion, "not found", ForeignOperation) :
        t \in {"fetch-response", "fetch-error", "subscribed", "remote-op", "op-ack",
               "history-response"},
        kd \in {<<collection, "s2">>, <<"problem", doc_id>>}}

Incoming == OwnMessages \cup ForeignMessages

\* ------------------------------------------------- the store (from the spec)
\* content, version, the accepted operations in order, and who is subscribed
InitStore(text) ==
    [content |-> text, version |-> 0, initial |-> text, log |-> <<>>, subscribers |-> {}]

\* Operation semantics of the data model: insert puts the text at the offset,
\* delete removes the given substring's length, or one character
storeApply(text, op) ==
    LET p == IF op.position > Len(text) THEN Len(text) ELSE op.position
        n == IF op.hasContent THEN Len(op.content) ELSE 1
        q == IF p + n > Len(text) THEN Len(text) ELSE p + n
    IN  IF op.type = "insert"
        THEN SubSeq(text, 1, p) \o op.content \o SubSeq(text, p + 1, Len(text))
        ELSE SubSeq(text, 1, p) \o SubSeq(text, q + 1, Len(text))

\* operations 1..n of the log applied in order to the version-0 content
RECURSIVE replay(_, _, _)
replay(text, log, n) ==
    IF n = 0 THEN text ELSE storeApply(replay(text, log, n - 1), log[n].operation)

\* the store's answer to one request of client c: [store, to], where to[d] is
\* what is sent to client d
storeHandle(st, c, r) ==
    LET none == [d \in Clients |-> <<>>]
        reply(m) == [none EXCEPT ![c] = <<m>>]
    IN  IF r.type = "fetch"
        THEN [store |-> st,
              to |-> reply(Message("fetch-response", r.collection, r.doc_id,
                                   st.content, st.version, "null", NoOperation))]
        ELSE IF r.type = "subscribe"
        THEN [store |-> [st EXCEPT !.subscribers = @ \cup {c}],
              to |-> reply(Message("subscribed", r.collection, r.doc_id,
                                   <<>>, 0, "null", NoOperation))]
        ELSE IF r.type = "unsubscribe"
        THEN [store |-> [st EXCEPT !.subscribers = @ \ {c}], to |-> none]
        ELSE IF r.type = "op"
        THEN LET v == st.version + 1
                 applied == Operation(r.operation, v)
             IN  [store |-> [st EXCEPT !.content = storeApply(@, r.operation),
                                       !.version = v,
                                       !.log = Append(@, [from |-> c, operation |-> applied])],
                  to |-> [d \in Clients |->
                            IF d = c
                            THEN <<Message("op-ack", r.collection, r.doc_id,
                                           <<>>, v, "null", NoOperation)>>
                            ELSE IF d \in st.subscribers
                            THEN <<Message("remote-op", r.collection, r.doc_id,
                                           <<>>, 0, "null", applied)>>
                            ELSE <<>>]]
        ELSE IF r.type = "history"
        THEN [store |-> st,
              to |-> reply(Message("history-response", r.collection, r.doc_id,
                                   <<>>, 0, "null", NoOperation))]
        ELSE [store |-> st, to |-> none]

\* ------------------------------------------------- the Connection Manager
SocketIds == 1..MaxSockets

\* no WebSocket object in this slot
NoSocket == [readyState |-> "NONE", established |-> FALSE, promise |-> "none"]

\* new WebSocket(url): the handshake is under way, and the promise of the
\* connect() call that created it is pending
NewSocket == [readyState |-> "CONNECTING", established |-> FALSE, promise |-> "pending"]

\* the fields of a WebSocketService after its constructor; ws = 0 is null
InitManager ==
    [ws |-> 0, reconnectAttempts |-> 0, listeners |-> {}, onConnectionChange |-> FALSE]

\* useWebSocket after its first render and new WebSocketService(sessionId)
InitHook == [isConnected |-> FALSE, ws |-> 0, mounted |-> TRUE]

ListenerTypes == {"message", "user_joined"}
Envelopes == {[type |-> t, data |-> 1] : t \in {"cursor_position", "problem_updated"}}

\* the manager, its sockets and its surroundings as one value
World ==
    [manager |-> manager, sockets |-> sockets, timers |-> timers, hook |-> hook,
     written |-> written, returned |-> returned, closeEvent |-> closeEvent,
     delivered |-> delivered]

\* this.ws?.readyState === WebSocket.OPEN
isConnected(w) == w.manager.ws # 0 /\ w.sockets[w.manager.ws].readyState = "OPEN"

\* a slot new WebSocket() can use: an empty one, or the one of the closed socket
\* this.ws is about to stop referring to
freeSlots(w) ==
    {s \in SocketIds :
        \/ w.sockets[s].readyState = "NONE"
        \/ /\ w.sockets[s].readyState = "CLOSED"
           /\ w.hook.ws # s}

\* the handler useWebSocket installs: setIsConnected(connected), and on true
\* setWs(wsRef.current?.getWebSocket() || null)
onConnectionChange(w, connected) ==
    IF ~w.manager.onConnectionChange THEN w
    ELSE [w EXCEPT !.hook.isConnected = connected,
                   !.hook.ws = IF connected
                               THEN (IF w.hook.mounted THEN w.manager.ws ELSE 0)
                               ELSE @]

\* connect without the check for an open socket
connect_always(w) ==
    LET s == CHOOSE f \in freeSlots(w) : \A g \in freeSlots(w) : f <= g
    IN  IF freeSlots(w) = {} THEN [w EXCEPT !.returned = "resolved"]
        ELSE [w EXCEPT !.sockets[s] = NewSocket,
                       !.manager.ws = s,
                       !.returned = "pending"]

connect(w) ==
    IF isConnected(w) THEN [w EXCEPT !.returned = "resolved"]
    ELSE LET s == CHOOSE f \in freeSlots(w) : \A g \in freeSlots(w) : f <= g
         IN  [w EXCEPT !.sockets[s] = NewSocket,
                       !.manager.ws = s,
                       !.returned = "pending"]

\* onopen that leaves the attempt counter alone
onopen_noReset(w, s) ==
    onConnectionChange(
        [w EXCEPT !.sockets[s].promise = IF @ = "pending" THEN "resolved" ELSE @],
        TRUE)

\* this.ws.onopen
onopen(w, s) ==
    onConnectionChange(
        [w EXCEPT !.manager.reconnectAttempts = 0,
                  !.sockets[s].promise = IF @ = "pending" THEN "resolved" ELSE @],
        TRUE)

\* this.ws.onerror
onerror(w, s) ==
    [w EXCEPT !.sockets[s].promise = IF @ = "pending" THEN "rejected" ELSE @]

attemptReconnect(w) ==
    LET attempts == w.manager.reconnectAttempts + 1
        delay == reconnectDelay * 2 ^ (attempts - 1)
    IN  [w EXCEPT !.manager.reconnectAttempts = attempts,
                  !.timers = Append(@, delay)]

\* onclose that allows one attempt too many
onclose_offByOne(w, wasClean) ==
    LET w1 == onConnectionChange(
                  [w EXCEPT !.closeEvent = IF wasClean THEN "clean" ELSE "unclean"], FALSE)
    IN  IF ~wasClean /\ w1.manager.reconnectAttempts <= maxReconnectAttempts
        THEN attemptReconnect(w1)
        ELSE w1

\* onclose that does not tell the connection-change handler
onclose_silent(w, wasClean) ==
    LET w1 == [w EXCEPT !.closeEvent = IF wasClean THEN "clean" ELSE "unclean"]
    IN  IF ~wasClean /\ w1.manager.reconnectAttempts < maxReconnectAttempts
        THEN attemptReconnect(w1)
        ELSE w1

\* this.ws.onclose
onclose(w, wasClean) ==
    LET w1 == onConnectionChange(
                  [w EXCEPT !.closeEvent = IF wasClean THEN "clean" ELSE "unclean"], FALSE)
    IN  IF ~wasClean /\ w1.manager.reconnectAttempts < maxReconnectAttempts
        THEN attemptReconnect(w1)
        ELSE w1

\* WebSocket.close(): a socket that is connecting or open starts closing
close(socket) ==
    IF socket.readyState \in {"CONNECTING", "OPEN"}
    THEN [socket EXCEPT !.readyState = "CLOSING"]
    ELSE socket

disconnect(w) ==
    IF w.manager.ws # 0
    THEN [w EXCEPT !.sockets[w.manager.ws] = close(@), !.manager.ws = 0]
    ELSE w

\* send that writes whether or not the socket is open
send_unconditional(w, envelope) == [w EXCEPT !.written = Append(@, envelope)]

send(w, envelope) ==
    IF isConnected(w) THEN [w EXCEPT !.written = Append(@, envelope)] ELSE w

on(w, eventType) == [w EXCEPT !.manager.listeners = @ \cup {eventType}]

off(w, eventType) == [w EXCEPT !.manager.listeners = @ \ {eventType}]

setConnectionChangeHandler(w) == [w EXCEPT !.manager.onConnectionChange = TRUE]

\* event.data of a message event: text JSON.parse rejects ("text"), the JSON
\* text null ("null"), or the JSON text of a message ("json")
Payload(kind, message) == [kind |-> kind, message |-> message]

NoMessage == Message("none", collection, doc_id, <<>>, 0, "null", NoOperation)

\* no message event yet
NoDelivery == [payload |-> Payload("none", NoMessage), calls |-> {}]

\* a listener called back: the event type it was registered for, and whether
\* it was given message.data or the whole message
Call(eventType, argument) == [listener |-> eventType, argument |-> argument]

\* WebSocketService.handleMessage: the listeners of message.type get
\* message.data, then the listeners of 'message' get the message
listenersCalled(w, message) ==
    {Call(t, "data") : t \in w.manager.listeners \cap {message.type}}
    \cup {Call(t, "message") : t \in w.manager.listeners \cap {"message"}}

\* onmessage that hands the raw payload to the 'message' listeners when it
\* cannot be parsed
onmessage_passesRaw(w, payload) ==
    IF payload.kind = "json"
    THEN [w EXCEPT !.delivered = [payload |-> payload,
                                  calls |-> listenersCalled(w, payload.message)]]
    ELSE [w EXCEPT !.delivered =
              [payload |-> payload,
               calls |-> {Call(t, "message") : t \in w.manager.listeners \cap {"message"}}]]

\* this.ws.onmessage: JSON.parse and handleMessage inside one try; the parse
\* of text that is not JSON raises, and so does message.type of null
onmessage(w, payload) ==
    IF payload.kind = "json"
    THEN [w EXCEPT !.delivered = [payload |-> payload,
                                  calls |-> listenersCalled(w, payload.message)]]
    ELSE [w EXCEPT !.delivered = [payload |-> payload, calls |-> {}]]

\* useShareDB's listener on the same event: JSON.parse(event.data) inside the
\* try of handleMessage
parsed(payload) ==
    IF payload.kind = "json" THEN payload.message
    ELSE [NoMessage EXCEPT !.type = "malformed"]

\* useWebSocket's cleanup
cleanup(w) ==
    [disconnect(w) EXCEPT !.hook = [isConnected |-> FALSE, ws |-> 0, mounted |-> FALSE]]

\* the setTimeout callback of attemptReconnect
reconnect(w, i) ==
    connect([w EXCEPT !.timers = SubSeq(@, 1, i - 1) \o SubSeq(@, i + 1, Len(@))])

\* ------------------------------------------------------------------- Init
\* the single-subscription specification uses client 1 only
Me == CHOOSE c \in Clients : \A d \in Clients : c <= d

InitConn ==
    /\ manager = InitManager
    /\ sockets = [s \in SocketIds |-> NoSocket]
    /\ timers = <<>>
    /\ hook = InitHook
    /\ written = <<>>
    /\ returned = "none"
    /\ closeEvent = "none"
    /\ delivered = NoDelivery

Init ==
    /\ \E auto \in BOOLEAN :
         engine = [c \in Clients |-> InitEngine(IF c = Me THEN auto ELSE TRUE, FALSE)]
    /\ inbox = [c \in Clients |-> <<>>]
    /\ store = InitStore(<<>>)
    /\ InitConn

\* ------------------------------------------------ actions of one engine
\* whether websocket.send raises in a call: never on a browser socket that is OPEN
Throws(c) == IF engine[c].faulty THEN BOOLEAN ELSE {FALSE}

\* the engine's state becomes e1, within the explored bounds: the peer has read
\* the previous message before the engine writes the next one
Becomes(c, e1) ==
    /\ Len(e1.wire) <= 1
    /\ Len(e1.pendingChanges) <= MaxQueue
    /\ Len(e1.content) <= MaxLen
    /\ engine' = [engine EXCEPT ![c] = e1]

\* what a step of the engine alone leaves unchanged
others == <<inbox, store, manager, sockets, timers, hook, written, returned, closeEvent,
            delivered>>

\* useWebSocket hands the engine the socket that has just opened
\* (setWs in the connection-change handler), and the effects run
WebSocketProvided(c) ==
    /\ ~isOpen(engine[c])
    /\ \E throws \in Throws(c) :
         Becomes(c, onWebSocketChange(
             [engine[c] EXCEPT !.websocket = TRUE, !.readyState = "OPEN"], throws))
    /\ UNCHANGED others

\* the socket the engine holds closes
SocketCloses(c) ==
    /\ isOpen(engine[c])
    /\ Becomes(c, [engine[c] EXCEPT !.readyState = "CLOSED"])
    /\ UNCHANGED others

\* useWebSocket's cleanup: setWs(null)
WebSocketCleared(c) ==
    /\ engine[c].websocket
    /\ Becomes(c, onWebSocketChange(
           [engine[c] EXCEPT !.websocket = FALSE, !.readyState = "CLOSED"], FALSE))
    /\ UNCHANGED others

\* the peer reads the oldest message on the wire
PeerReads(c) ==
    /\ engine[c].wire # <<>>
    /\ Becomes(c, [engine[c] EXCEPT !.wire = Tail(@)])
    /\ UNCHANGED others

FetchDocument(c) ==
    /\ \E throws \in Throws(c) : Becomes(c, fetchDocument(engine[c], throws))
    /\ UNCHANGED others

Subscribe(c) ==
    /\ \E throws \in Throws(c) : Becomes(c, subscribe(engine[c], throws))
    /\ UNCHANGED others

Unsubscribe(c) ==
    /\ \E throws \in Throws(c) : Becomes(c, unsubscribe(engine[c], throws))
    /\ UNCHANGED others

SendOperation(c) ==
    /\ \E op \in LocalOps, throws \in Throws(c) :
         Becomes(c, sendOperation(engine[c], op, throws))
    /\ UNCHANGED others

GetHistory(c) ==
    /\ \E v \in Versions, throws \in Throws(c) :
         Becomes(c, getHistory(engine[c], v, throws))
    /\ UNCHANGED others

SendCursor(c) ==
    /\ \E throws \in Throws(c) : Becomes(c, sendCursor(engine[c], throws))
    /\ UNCHANGED others

SetContent(c) ==
    /\ \E text \in Strings(MaxLen) : Becomes(c, setContent(engine[c], text))
    /\ UNCHANGED others

\* a message event on the socket the listener is attached to
Receive(c) ==
    /\ isOpen(engine[c])
    /\ \E m \in Incoming, throws \in Throws(c) :
         Becomes(c, handleMessage(engine[c], m, throws))
    /\ UNCHANGED others

Next ==
    \/ WebSocketProvided(Me)
    \/ SocketCloses(Me)
    \/ WebSocketCleared(Me)
    \/ PeerReads(Me)
    \/ FetchDocument(Me)
    \/ Subscribe(Me)
    \/ Unsubscribe(Me)
    \/ SendOperation(Me)
    \/ GetHistory(Me)
    \/ SendCursor(Me)
    \/ SetContent(Me)
    \/ Receive(Me)

Spec == Init /\ [][Next]_vars

\* one subscription on a socket whose send may raise
InitFaulty ==
    /\ engine = [c \in Clients |-> InitEngine(TRUE, c = Me)]
    /\ inbox = [c \in Clients |-> <<>>]
    /\ store = InitStore(<<>>)
    /\ InitConn

SpecFaulty == InitFaulty /\ [][Next]_vars

\* --------------------------------------- two clients and the store, end to end
\* document contents the store starts with
InitialContents == {<<>>, <<"a">>}

InitSync ==
    /\ engine = [c \in Clients |-> InitEngine(TRUE, FALSE)]
    /\ inbox = [c \in Clients |-> <<>>]
    /\ \E text \in InitialContents : store = InitStore(text)
    /\ InitConn

\* the store reads client c's oldest request, applies it and answers
StoreReceives(c) ==
    /\ engine[c].wire # <<>>
    /\ LET h == storeHandle(store, c, Head(engine[c].wire))
       IN  /\ h.store.version <= MaxStoreOps
           /\ Len(h.store.content) <= MaxLen
           /\ \A d \in Clients : Len(inbox[d]) + Len(h.to[d]) <= MaxInbox
           /\ store' = h.store
           /\ inbox' = [d \in Clients |-> inbox[d] \o h.to[d]]
           /\ engine' = [engine EXCEPT ![c].wire = Tail(@)]
           /\ UNCHANGED connVars

\* the oldest message the store sent to client c arrives
Deliver(c) ==
    /\ inbox[c] # <<>>
    /\ isOpen(engine[c])
    /\ \E throws \in Throws(c) : Becomes(c, handleMessage(engine[c], Head(inbox[c]), throws))
    /\ inbox' = [inbox EXCEPT ![c] = Tail(@)]
    /\ UNCHANGED store
    /\ UNCHANGED connVars

\* the user edits once the document has been loaded
Edits(c) ==
    /\ isOpen(engine[c])
    /\ ~engine[c].isLoading
    /\ SendOperation(c)

NextSync ==
    \/ \E c \in Clients : WebSocketProvided(c)
    \/ \E c \in Clients : Edits(c)
    \/ \E c \in Clients : StoreReceives(c)
    \/ \E c \in Clients : Deliver(c)

SpecSync == InitSync /\ [][NextSync]_vars

\* ------------------------------------------- actions of the manager
\* the world becomes w, within the explored bounds; a closed socket nothing
\* refers to any more is forgotten
Installs(w) ==
    /\ Len(w.timers) <= MaxTimers
    /\ Len(w.written) <= 1
    /\ manager' = w.manager
    /\ timers' = w.timers
    /\ hook' = w.hook
    /\ written' = w.written
    /\ returned' = w.returned
    /\ closeEvent' = w.closeEvent
    /\ delivered' = w.delivered
    /\ sockets' = [s \in SocketIds |->
                     IF /\ w.sockets[s].readyState = "CLOSED"
                        /\ w.manager.ws # s
                        /\ w.hook.ws # s
                     THEN NoSocket ELSE w.sockets[s]]

Connect ==
    /\ isConnected(World) \/ freeSlots(World) # {}
    /\ Installs(connect(World))
    /\ UNCHANGED engineVars

Disconnect ==
    /\ Installs(disconnect(World))
    /\ UNCHANGED engineVars

Send ==
    /\ \E envelope \in Envelopes : Installs(send(World, envelope))
    /\ UNCHANGED engineVars

On ==
    /\ \E eventType \in ListenerTypes : Installs(on(World, eventType))
    /\ UNCHANGED engineVars

Off ==
    /\ \E eventType \in ListenerTypes : Installs(off(World, eventType))
    /\ UNCHANGED engineVars

SetConnectionChangeHandler ==
    /\ Installs(setConnectionChangeHandler(World))
    /\ UNCHANGED engineVars

Cleanup ==
    /\ hook.mounted
    /\ Installs(cleanup(World))
    /\ UNCHANGED engineVars

\* the handshake of socket s completes: readyState becomes OPEN, open fires
SocketOpens(s) ==
    /\ sockets[s].readyState = "CONNECTING"
    /\ Installs(onopen([World EXCEPT !.sockets[s].readyState = "OPEN",
                                     !.sockets[s].established = TRUE], s))
    /\ UNCHANGED engineVars

\* socket s is closed: readyState becomes CLOSED and close fires, after error
\* when the connection failed. A connection that was never established, or is
\* lost, closes uncleanly; a closing handshake that completes closes cleanly.
SocketClosed(s) ==
    /\ sockets[s].readyState \in {"CONNECTING", "OPEN", "CLOSING"}
    /\ \E wasClean \in BOOLEAN :
         /\ wasClean => sockets[s].established
         /\ LET w0 == [World EXCEPT !.sockets[s].readyState = "CLOSED"]
                w1 == IF wasClean THEN w0 ELSE onerror(w0, s)
            IN  Installs(onclose(w1, wasClean))
    /\ UNCHANGED engineVars

TimerFires ==
    /\ \E i \in 1..Len(timers) :
         /\ isConnected(World) \/ freeSlots(World) # {}
         /\ Installs(reconnect(World, i))
    /\ UNCHANGED engineVars

\* the peer reads the oldest envelope
PeerReadsEnvelope ==
    /\ written # <<>>
    /\ Installs([World EXCEPT !.written = Tail(@)])
    /\ UNCHANGED engineVars

\* the manager as useWebSocket drives it, and as its sockets and timers drive it
NextConn ==
    \/ SetConnectionChangeHandler
    \/ Connect
    \/ Disconnect
    \/ Cleanup
    \/ \E s \in SocketIds : SocketOpens(s)
    \/ \E s \in SocketIds : SocketClosed(s)
    \/ TimerFires

InitOne ==
    /\ engine = [c \in Clients |-> InitEngine(TRUE, FALSE)]
    /\ inbox = [c \in Clients |-> <<>>]
    /\ store = InitStore(<<>>)
    /\ InitConn

SpecConn == InitOne /\ [][NextConn]_vars

\* a manager used on its own: connection, listeners and send
NextSend ==
    \/ Connect
    \/ Disconnect
    \/ Send
    \/ On
    \/ Off
    \/ PeerReadsEnvelope
    \/ \E s \in SocketIds : SocketOpens(s)
    \/ \E s \in SocketIds : SocketClosed(s)
    \/ TimerFires

SpecSend == InitOne /\ [][NextSend]_vars

\* ------------------------------- message events on one open connection
\* what arrives: text that is not JSON, null, and messages
Payloads ==
    {Payload(k, NoMessage) : k \in {"text", "null"}}
    \cup {Payload("json", m) :
            m \in {i \in OwnMessages :
                     \/ i.type \in {"op-ack", "fetch-error", "user_joined"}
                     \/ i.type = "fetch-response" /\ i.content = <<"a">>}}

\* useWebSocket's effect connects once
ConnectOnce ==
    /\ manager.ws = 0
    /\ Connect

\* useShareDB is rendered with the open socket useWebSocket holds
Provided ==
    /\ hook.ws # 0
    /\ sockets[hook.ws].readyState = "OPEN"
    /\ WebSocketProvided(Me)

\* a message event on socket s: the manager's onmessage runs, and so does
\* useShareDB's listener when s is the socket it was given
MessageEvent(s) ==
    /\ sockets[s].readyState = "OPEN"
    /\ \E payload \in Payloads :
         /\ Installs(onmessage(World, payload))
         /\ IF hook.ws = s /\ isOpen(engine[Me])
            THEN Becomes(Me, handleMessage(engine[Me], parsed(payload), FALSE))
            ELSE UNCHANGED engine
    /\ UNCHANGED <<inbox, store>>

NextMsg ==
    \/ SetConnectionChangeHandler
    \/ ConnectOnce
    \/ \E s \in SocketIds : SocketOpens(s)
    \/ On
    \/ Off
    \/ Provided
    \/ PeerReads(Me)
    \/ SendOperation(Me)
    \/ \E s \in SocketIds : MessageEvent(s)

InitMsg ==
    /\ engine = [c \in Clients |-> InitEngine(TRUE, FALSE)]
    /\ inbox = [c \in Clients |-> <<>>]
    /\ store = InitStore(<<>>)
    /\ InitConn

SpecMsg == InitMsg /\ [][NextMsg]_vars

\* ============================================================== properties
\* the messages of type t in a sequence of messages
count(msgs, t) == Cardinality({i \in 1..Len(msgs) : msgs[i].type = t})

\* the request the engine writes in this step, if it writes one
Written(c) ==
    IF Len(engine'[c].wire) > Len(engine[c].wire)
    THEN {engine'[c].wire[Len(engine'[c].wire)]}
    ELSE {}

\* nothing is on its way between the clients and the store
Quiescent == \A c \in Clients : engine[c].wire = <<>> /\ inbox[c] = <<>>

\* x inserted into text at offset p
inserted(text, p, x) == SubSeq(text, 1, p) \o x \o SubSeq(text, p + 1, Len(text))

\* C1 (backpressure): for each subscription, at most one locally-originated
\* operation is transmitted and not yet acknowledged: the op requests on their
\* way to the store plus the op-acks on their way back never exceed one.
C1_Backpressure ==
    \A c \in Clients : count(engine[c].wire, "op") + count(inbox[c], "op-ack") <= 1

\* C2 (round trip / convergence): once every request has been answered and
\* every answer delivered, each subscribed client mirrors the store's content,
\* which is the version-0 content with operations 1..N applied in order.
C2_Convergence ==
    Quiescent =>
        /\ store.content = replay(store.initial, store.log, store.version)
        /\ \A c \in store.subscribers : engine[c].content = store.content

\* C3 (version monotonicity): whatever messages are delivered, in whatever
\* order and with whatever versions, the subscription's version never decreases
\* from one state to the next.
C3_VersionMonotonic == [][engine'[Me].version >= engine[Me].version]_vars

\* C4 (acknowledged local edit): after a fetch-response {C, v = 0}, an insert of
\* x at offset p that is transmitted and answered by op-ack {version 1} leaves
\* the engine at content = C with x inserted at p, version = 1.
C4_AckedEditApplied ==
    \A c \in Clients :
        ( /\ Len(store.log) = 1
          /\ store.log[1].from = c
          /\ store.log[1].operation.type = "insert"
          /\ store.log[1].operation.position <= Len(store.initial)
          /\ inbox[c] = <<>>
          /\ engine[c].version = 1 )
        => /\ engine[c].content =
                inserted(store.initial, store.log[1].operation.position,
                         store.log[1].operation.content)
           /\ engine[c].version = 1

\* C5 (idempotent subscribe): on an open connection, a subscribe() that follows
\* a subscribe() (hasSubscribed is set) writes nothing and changes nothing, and
\* no other step writes a second subscribe request either; the first call
\* writes exactly one subscribe request.
C5_IdempotentSubscribe ==
    [][ /\ (isOpen(engine[Me]) /\ engine[Me].hasSubscribed)
            => /\ \A r \in Written(Me) : r.type # "subscribe"
               /\ Subscribe(Me) => UNCHANGED vars
        /\ (isOpen(engine[Me]) /\ ~engine[Me].hasSubscribed /\ Subscribe(Me))
            => /\ Written(Me) = {Request("subscribe", NoOperation, 0)}
               /\ engine'[Me].hasSubscribed
      ]_vars

\* a subscribe request has been written and the guard is set on an open socket
C5_Witness ==
    /\ isOpen(engine[Me])
    /\ engine[Me].hasSubscribed
    /\ engine[Me].wire = <<Request("subscribe", NoOperation, 0)>>

\* a WebSocket object is created in this step
SocketCreated ==
    \E s \in SocketIds :
        sockets'[s].readyState = "CONNECTING" /\ sockets[s].readyState # "CONNECTING"

\* a socket's handshake completes in this step
SocketOpened ==
    \E s \in SocketIds :
        sockets[s].readyState = "CONNECTING" /\ sockets'[s].readyState = "OPEN"

\* attemptReconnect schedules a timer in this step
ReconnectScheduled == Len(timers') > Len(timers)

\* a socket that is connecting, open or closing
live(s) == sockets[s].readyState \in {"CONNECTING", "OPEN", "CLOSING"}

\* C6 (no reconnect after disconnect): once disconnect() has reset this.ws, the
\* manager gets a socket again only through a connect() call of its user: no
\* reconnect timer is left pending, and none fires and opens a socket.
C6_NoReconnectAfterDisconnect ==
    [][(manager.ws = 0 /\ SocketCreated) => timers' = timers]_vars

\* C7 (reconnect policy): a reconnect is scheduled only by an unclean close; it
\* is attempt k = counter + 1 <= 5 and its delay is 1000 * 2^(k-1) ms; the
\* counter changes only by such a step or by an open, never exceeds 5, and at 5
\* nothing more is scheduled; sockets are created only by connect() calls and
\* by scheduled timers.
C7_ReconnectPolicy ==
    [][ /\ manager'.reconnectAttempts <= maxReconnectAttempts
        /\ ReconnectScheduled =>
             /\ \E s \in SocketIds : SocketClosed(s)
             /\ closeEvent' = "unclean"
             /\ manager.reconnectAttempts < maxReconnectAttempts
             /\ manager'.reconnectAttempts = manager.reconnectAttempts + 1
             /\ timers' = Append(timers, 1000 * 2 ^ (manager'.reconnectAttempts - 1))
             /\ timers'[Len(timers')] \in {1000, 2000, 4000, 8000, 16000}
        /\ manager'.reconnectAttempts # manager.reconnectAttempts =>
             \/ ReconnectScheduled
             \/ SocketOpened /\ manager'.reconnectAttempts = 0
        /\ manager.reconnectAttempts = maxReconnectAttempts => ~ReconnectScheduled
        /\ SocketCreated => (Len(timers') < Len(timers) \/ Connect)
      ]_vars

\* five attempts have failed: the counter is at 5, the last close was unclean,
\* nothing is scheduled and no socket is left
C7_Witness ==
    /\ manager.reconnectAttempts = maxReconnectAttempts
    /\ closeEvent = "unclean"
    /\ timers = <<>>
    /\ \A s \in SocketIds : ~live(s)

\* C8 (reset on open): every open resets the attempt counter to 0; the counter
\* leaves 0 only when a reconnect is scheduled, so the first reconnect scheduled
\* after an open is attempt 1, with a delay of 1000 ms.
C8_OpenResetsAttempts ==
    [][ /\ SocketOpened => manager'.reconnectAttempts = 0
        /\ (manager.reconnectAttempts = 0 /\ manager'.reconnectAttempts # 0) =>
             ReconnectScheduled
        /\ (ReconnectScheduled /\ manager.reconnectAttempts = 0) =>
             /\ manager'.reconnectAttempts = 1
             /\ timers'[Len(timers')] = reconnectDelay
      ]_vars

\* the manager is connected again with the counter at 0 while a timer of an
\* earlier unclean close is still pending
C8_Witness ==
    /\ isConnected(World)
    /\ manager.reconnectAttempts = 0
    /\ timers # <<>>

\* C9 (idempotent connect): while the manager's socket is open, connect()
\* returns a resolved promise and changes nothing else; no step creates a
\* socket while the manager's socket is open.
C9_ConnectIdempotent ==
    [][ isConnected(World) =>
          /\ ~SocketCreated
          /\ Connect => /\ returned' = "resolved"
                        /\ UNCHANGED <<manager, sockets, timers, hook, written, closeEvent>>
      ]_vars

\* a connect() call has returned a resolved promise on an open socket
C9_Witness == isConnected(World) /\ returned = "resolved"

\* C10 (send): with the socket open, send writes exactly the one envelope and
\* changes nothing else; with the socket not open it changes nothing; and an
\* envelope is only ever written by a send on an open socket, so nothing is
\* kept to be written later.
C10_SendWritesOrDrops ==
    [][ /\ (Send /\ isConnected(World)) =>
             /\ \E envelope \in Envelopes : written' = Append(written, envelope)
             /\ UNCHANGED <<manager, sockets, timers, hook, returned, closeEvent>>
        /\ (Send /\ ~isConnected(World)) => UNCHANGED vars
        /\ Len(written') > Len(written) =>
             /\ isConnected(World)
             /\ UNCHANGED <<manager, sockets, timers, hook, returned, closeEvent>>
      ]_vars

\* an envelope has been written on an open socket
C10_Witness == isConnected(World) /\ written # <<>>

\* ------------------------------------------------- the engine's operations
\* the request sendOperation writes for op in state e
opRequest(e, op) == Request("op", Operation(op, e.lastKnownVersion), 0)

\* C11 (sendOperation outcome): a call on a connection that is not open appends
\* the operation to the end of pendingChanges, writes nothing and returns
\* false; a call on an open connection writes the op request at once, leaves
\* pendingChanges as it is and returns true; nothing else changes either way.
C11_SendOperationOutcome ==
    [][SendOperation(Me) =>
         \E op \in LocalOps :
            IF isOpen(engine[Me])
            THEN /\ engine'[Me] = [engine[Me] EXCEPT !.wire = Append(@, opRequest(engine[Me], op))]
                 /\ engine'[Me].pendingChanges = engine[Me].pendingChanges
                 /\ sendOperationResult(engine[Me], op, FALSE)
            ELSE /\ engine'[Me] = [engine[Me] EXCEPT !.pendingChanges = Append(@, op)]
                 /\ engine'[Me].wire = engine[Me].wire
                 /\ ~sendOperationResult(engine[Me], op, FALSE)
      ]_vars

\* an operation queued while the connection was down is still queued, and an
\* operation submitted on the reopened connection is on the wire
C11_Witness ==
    /\ isOpen(engine[Me])
    /\ engine[Me].pendingChanges = <<LocalOp("insert", 1, TRUE, <<"b">>)>>
    /\ engine[Me].wire = <<opRequest(engine[Me], LocalOp("delete", 0, TRUE, <<"a">>))>>

OpAck(v) == Message("op-ack", collection, doc_id, <<>>, v, "null", NoOperation)

\* C12 (op-ack): an op-ack for this document sets version to the payload's
\* version and calls onVersionChange with it; with a non-empty queue it then
\* takes exactly the head off the queue and writes exactly that operation,
\* the rest of the queue staying in order; with an empty queue it writes
\* nothing. The queue gets shorter in no other way.
C12_OpAckDrainsOne ==
    /\ [](isOpen(engine[Me]) =>
            \A v \in Versions :
               LET e == engine[Me]
                   e1 == handleMessage(e, OpAck(v), FALSE)
                   acked == [e EXCEPT !.version = v, !.lastKnownVersion = v]
               IN  /\ e1.version = v
                   /\ notifications(e, OpAck(v)) = {Notification("onVersionChange", <<>>, v)}
                   /\ e.pendingChanges # <<>> =>
                        /\ e1.pendingChanges = Tail(e.pendingChanges)
                        /\ e1.wire = Append(e.wire, opRequest(acked, Head(e.pendingChanges)))
                        /\ e1 = [acked EXCEPT !.pendingChanges = e1.pendingChanges,
                                              !.wire = e1.wire]
                   /\ e.pendingChanges = <<>> => e1 = acked)
    /\ [][Len(engine'[Me].pendingChanges) < Len(engine[Me].pendingChanges) =>
            /\ Receive(Me)
            /\ engine'[Me].pendingChanges = Tail(engine[Me].pendingChanges)
            /\ \E v \in Versions :
                 engine'[Me].wire =
                     <<Request("op", Operation(Head(engine[Me].pendingChanges), v), 0)>>
         ]_vars

\* an op-ack with version 1 has arrived on a queue of two: the insert that was
\* first in the queue is on the wire, the delete is still queued
C12_Witness ==
    /\ isOpen(engine[Me])
    /\ engine[Me].isLoading
    /\ engine[Me].version = 1
    /\ engine[Me].pendingChanges = <<LocalOp("delete", 0, TRUE, <<"a">>)>>
    /\ engine[Me].wire =
         <<Request("op", Operation(LocalOp("insert", 1, TRUE, <<"b">>), 1), 0)>>

RemoteOp(o) == Message("remote-op", collection, doc_id, <<>>, 0, "null", o)

\* the smaller of two numbers
min(a, b) == IF a < b THEN a ELSE b

\* n characters removed from text at offset p
removed(text, p, n) == SubSeq(text, 1, p) \o SubSeq(text, min(p + n, Len(text)) + 1, Len(text))

\* the edit of an operation as the document model defines it: an insert puts
\* its content at the offset; a delete removes as many characters as its
\* content has, and one when it has none
edited(text, o) ==
    IF o.type = "insert" THEN inserted(text, min(o.position, Len(text)), o.content)
    ELSE removed(text, min(o.position, Len(text)),
                 IF o.hasContent /\ o.content # <<>> THEN Len(o.content) ELSE 1)

C14_RemoteDelete ==
    isOpen(engine[Me]) =>
        \A o \in RemoteOperations :
           LET e == engine[Me]
               e1 == handleMessage(e, RemoteOp(o), FALSE)
               n == IF o.hasContent THEN Len(o.content) ELSE 1
           IN  (o.type = "delete" /\ o.position + n <= Len(e.content)) =>
                   /\ e1.content = removed(e.content, o.position, n)
                   /\ Len(e1.content) = Len(e.content) - n

\* C15 (teardown drops the queue): when a subscription is torn down, by an
\* unsubscribe() that takes effect or by its connection being taken away,
\* its pendingChanges queue is empty afterwards, so that nothing queued before
\* the teardown can be transmitted after it.
C15_TeardownDropsQueue ==
    [][ /\ (Unsubscribe(Me) /\ isOpen(engine[Me])) => engine'[Me].pendingChanges = <<>>
        /\ WebSocketCleared(Me) => engine'[Me].pendingChanges = <<>>
      ]_vars

FetchResponse(x, v) == Message("fetch-response", collection, doc_id, x, v, "null", NoOperation)

\* C16 (fetch-response): a fetch-response for this document sets content and
\* version to the payload's, clears the error and ends loading; it writes
\* exactly one subscribe request when autoSubscribe is on and the subscription
\* has not subscribed yet, and writes nothing otherwise.
C16_FetchResponse ==
    isOpen(engine[Me]) =>
        \A x \in FetchedContents, v \in Versions :
           LET e == engine[Me]
               e1 == handleMessage(e, FetchResponse(x, v), FALSE)
               synced == [e EXCEPT !.content = x, !.version = v, !.lastKnownVersion = v,
                                   !.isLoading = FALSE, !.error = "null"]
           IN  /\ e1.content = x /\ e1.version = v
               /\ e1.error = "null" /\ ~e1.isLoading
               /\ (e.autoSubscribe /\ ~e.hasSubscribed) =>
                    /\ e1.wire = Append(e.wire, Request("subscribe", NoOperation, 0))
                    /\ e1.hasSubscribed
               /\ (~e.autoSubscribe \/ e.hasSubscribed) => e1 = synced

\* a fetch-response has arrived and the subscription has subscribed by itself
C16_Witness ==
    /\ isOpen(engine[Me])
    /\ engine[Me].autoSubscribe /\ engine[Me].hasSubscribed
    /\ ~engine[Me].isLoading /\ engine[Me].error = "null"
    /\ engine[Me].content = <<"a", "b">> /\ engine[Me].version = 1
    /\ engine[Me].wire = <<Request("subscribe", NoOperation, 0)>>

\* the subscription holds the document and no error
Synced(e) == ~e.isLoading /\ e.error = "null"

\* C17 (fetch-error): a fetch-error makes the message's error string the
\* subscription's error and leaves it out of Synced; content, version,
\* isSubscribed, hasSubscribed and pendingChanges stay as they are, nothing is
\* written, and the socket stays as it is.
C17_FetchError ==
    isOpen(engine[Me]) =>
        \A m \in {i \in Incoming : i.type = "fetch-error"} :
           LET e == engine[Me]
               e1 == handleMessage(e, m, FALSE)
           IN  /\ e1.error = m.error
               /\ ~Synced(e1)
               /\ e1 = [e EXCEPT !.error = m.error, !.isLoading = FALSE]
               /\ e1.wire = e.wire /\ isOpen(e1)

\* a fetch-error has arrived at a subscription that holds a document, is
\* subscribed and has an operation queued
C17_Witness ==
    /\ isOpen(engine[Me])
    /\ engine[Me].error = "not found" /\ ~engine[Me].isLoading
    /\ engine[Me].content = <<"a">> /\ engine[Me].version = 1
    /\ engine[Me].isSubscribed
    /\ engine[Me].pendingChanges # <<>>
    /\ engine[Me].wire = <<>>

\* a message event happens in this step
MessageEvents == \E s \in SocketIds : MessageEvent(s)

\* the payload of the latest message event could not be parsed
Malformed(d) == d.payload.kind \in {"text", "null"}

C19_SendErrorsRecorded ==
    (isOpen(engine[Me]) /\ engine[Me].faulty) =>
        /\ \A op \in LocalOps :
              LET e1 == sendOperation(engine[Me], op, TRUE)
              IN  /\ e1.error # "null"
                  /\ e1.pendingChanges = engine[Me].pendingChanges
                  /\ e1.wire = engine[Me].wire
                  /\ ~sendOperationResult(engine[Me], op, TRUE)
        /\ sendCursor(engine[Me], TRUE).error # "null"

\* C20 (single writer): content and version of a subscription change only in
\* a step of the message handler (fetch-response, op-ack, remote-op); no call
\* the orchestrator can make through the returned handles changes them.
C20_SingleWriter ==
    [][ (\/ engine'[Me].content # engine[Me].content
         \/ engine'[Me].version # engine[Me].version) => Receive(Me)
      ]_vars

\* an open socket reaches CLOSED in this step (a closed socket nothing refers
\* to is forgotten in the same step)
SocketClosedFromOpen ==
    \E s \in SocketIds :
        /\ sockets[s].established
        /\ sockets[s].readyState \in {"OPEN", "CLOSING"}
        /\ sockets'[s].readyState \in {"CLOSED", "NONE"}

\* C21 (connection-change handler): with a handler installed, every step in
\* which a socket becomes open calls it with true, and every step in which a
\* socket that was open becomes closed calls it with false; the hook's
\* isConnected holds the boolean of the last call.
C21_HandlerFollowsTransitions ==
    [][/\ (manager.onConnectionChange /\ SocketOpened) => hook'.isConnected
       /\ (manager.onConnectionChange /\ SocketClosedFromOpen) => ~hook'.isConnected]_vars

\* the handler has seen true and then false: a socket that opened with the
\* handler installed has closed cleanly
C21_Witness ==
    /\ manager.onConnectionChange
    /\ hook.mounted
    /\ hook.ws # 0
    /\ closeEvent = "clean"
    /\ ~hook.isConnected
\* the subscription state a caller can observe, and what has been transmitted
Observable(e) ==
    <<e.content, e.version, e.isSubscribed, e.isLoading, e.error, e.pendingChanges, e.wire>>

\* C22 (requests need an open connection): while the connection is not open,
\* fetchDocument(), subscribe() and unsubscribe() transmit nothing and leave
\* content, version, subscribed, loading, error and the pending queue as they were.
C22_NotOpenNoEffect ==
    ~isOpen(engine[Me]) =>
        /\ Observable(fetchDocument(engine[Me], FALSE)) = Observable(engine[Me])
        /\ Observable(subscribe(engine[Me], FALSE)) = Observable(engine[Me])
        /\ Observable(unsubscribe(engine[Me], FALSE)) = Observable(engine[Me])
        /\ fetchDocument(engine[Me], FALSE).hasSubscribed = engine[Me].hasSubscribed
        /\ subscribe(engine[Me], FALSE).hasSubscribed = engine[Me].hasSubscribed
        /\ unsubscribe(engine[Me], FALSE).hasSubscribed = engine[Me].hasSubscribed

\* the connection is lost while the document is loaded and subscribed, not yet
\* subscribed again, and an operation waits in the queue
C22_Witness ==
    /\ ~isOpen(engine[Me])
    /\ engine[Me].isSubscribed
    /\ ~engine[Me].isLoading
    /\ engine[Me].content # <<>>
    /\ engine[Me].pendingChanges # <<>>
\* C23 (messages for another document): a fetch-response, fetch-error,
\* subscribed, remote-op, op-ack or history-response whose (collection, doc_id)
\* is not this subscription's leaves content, version, the subscribed flag,
\* error and the pending queue unchanged and transmits nothing.
C23_ForeignIgnored ==
    isOpen(engine[Me]) =>
        \A m \in ForeignMessages :
            LET e1 == handleMessage(engine[Me], m, FALSE)
            IN  /\ e1.content = engine[Me].content
                /\ e1.version = engine[Me].version
                /\ e1.isSubscribed = engine[Me].isSubscribed
                /\ e1.error = engine[Me].error
                /\ e1.pendingChanges = engine[Me].pendingChanges
                /\ e1.wire = engine[Me].wire
\* C24 (subscribed flag and guard): the exposed subscribed flag always agrees
\* with the internal guard; after unsubscribe() it is false and stays false
\* until the next subscribe(), whatever acknowledgement arrives in between.
C24_FlagAgreesWithGuard == engine[Me].isSubscribed = engine[Me].hasSubscribed
\* the requests of the given type the engine writes in this step
writtenNow(type) ==
    {i \in (Len(engine[Me].wire) + 1)..Len(engine'[Me].wire) :
        engine'[Me].wire[i].type = type}

\* C25 (subscription follows the socket): whenever the connection is open and
\* the subscribed flag is true, a subscribe request has been sent on the current
\* socket; in particular, when the engine is handed a new socket it either
\* writes a subscribe request to it or no longer reports subscribed, and it
\* does not keep the guard that would stop the request from being re-issued.
C25_SubscribedOnCurrentSocket ==
    [][(~isOpen(engine[Me]) /\ isOpen(engine'[Me]) /\ engine'[Me].isSubscribed)
         => (writtenNow("subscribe") # {} \/ ~engine'[Me].hasSubscribed)]_vars
\* --------------------------- one client and a responsive store, with fairness
\* an operation is submitted while the engine has no open socket
SubmitsOffline(c) ==
    /\ ~isOpen(engine[c])
    /\ SendOperation(c)

\* the connection is lost: what was in flight on the socket is lost with it
ConnectionLost(c) ==
    /\ isOpen(engine[c])
    /\ engine' = [engine EXCEPT ![c].readyState = "CLOSED", ![c].wire = <<>>]
    /\ inbox' = [inbox EXCEPT ![c] = <<>>]
    /\ UNCHANGED store
    /\ UNCHANGED connVars

NextLive ==
    \/ SubmitsOffline(Me)
    \/ WebSocketProvided(Me)
    \/ ConnectionLost(Me)
    \/ Edits(Me)
    \/ StoreReceives(Me)
    \/ Deliver(Me)

\* the connection manager reconnects and hands over the new socket, the store
\* answers every request it is sent, and every answer is delivered; nothing
\* obliges the user to submit another operation
SpecLive ==
    /\ InitSync
    /\ [][NextLive]_vars
    /\ WF_vars(WebSocketProvided(Me))
    /\ WF_vars(StoreReceives(Me))
    /\ WF_vars(Deliver(Me))

\* the store has taken as many operations, or as much text, as is explored
AtBounds == store.version >= MaxStoreOps \/ Len(store.content) >= MaxLen

\* C26 (queued operations are flushed): an operation queued while the
\* connection was not open is eventually transmitted once the connection is
\* open again and stays open with a responsive store, even if no further
\* operation is submitted.
C26_QueuedEventuallySent ==
    (isOpen(engine[Me]) /\ engine[Me].pendingChanges # <<>>)
        ~> (engine[Me].pendingChanges = <<>> \/ ~isOpen(engine[Me]) \/ AtBounds)
\* the operation of an op request, without the version stamp
unstamped(o) == LocalOp(o.type, o.position, o.hasContent, o.content)

\* C27 (call order): operations are transmitted in the order of their
\* sendOperation calls: while earlier operations wait in pendingChanges, the
\* only operation transmitted is the oldest of them, which leaves the queue.
C27_TransmittedInCallOrder ==
    [][\A r \in Written(Me) :
          (r.type = "op" /\ engine[Me].pendingChanges # <<>>) =>
              /\ unstamped(r.operation) = Head(engine[Me].pendingChanges)
              /\ engine'[Me].pendingChanges = Tail(engine[Me].pendingChanges)]_vars
\* C28 (version stamp): the last known version always equals the exposed
\* version, and every op request carries, as operation.version, the last known
\* version at the moment it is written: for an operation taken off the queue
\* by an op-ack that is the version of that op-ack, not the one at queuing time.
C28_StampedWithCurrentVersion ==
    /\ [](engine[Me].lastKnownVersion = engine[Me].version)
    /\ [][\A r \in Written(Me) :
             r.type = "op" =>
                 /\ r.operation.version = engine'[Me].lastKnownVersion
                 /\ r.operation.version = engine'[Me].version]_vars

\* an operation has been written with a version later than the initial one
\* while another still waits in the queue
C28_Witness ==
    /\ engine[Me].wire # <<>>
    /\ engine[Me].wire[1].type = "op"
    /\ engine[Me].wire[1].operation.version = MaxVersion
    /\ engine[Me].version = MaxVersion
    /\ engine[Me].pendingChanges # <<>>
\* the sockets of the manager that are connecting or open; each carries the
\* onopen, onmessage, onclose and onerror handlers connect() attached to it
connectingOrOpen == {s \in SocketIds : sockets[s].readyState \in {"CONNECTING", "OPEN"}}

\* C29 (one live socket): a manager has at most one socket that is connecting
\* or open, whether connect() is called while an attempt is in progress or
\* races a reconnect timer.
C29_SingleLiveSocket == Cardinality(connectingOrOpen) <= 1
\* C30 (handler value and isConnected): the last boolean given to the
\* connection-change handler agrees with isConnected(); in particular, while
\* the current socket is and stays open, no event of another socket turns a
\* last value of true into false, even when no other socket is
\* connecting or open at that moment.
C30_HandlerAgreesWithIsConnected ==
    [][(/\ hook.isConnected
        /\ isConnected(World)
        /\ Cardinality(connectingOrOpen) <= 1
        /\ manager'.ws = manager.ws
        /\ sockets'[manager.ws].readyState = "OPEN")
         => hook'.isConnected]_vars
====
